---- MODULE Spec2Model ----
(***************************************************************************)
(* A model of libmat2's markup and office sanitizers:                      *)
(*   - web.py    : _HTMLParser (streaming tag sanitizer), CSSParser        *)
(*   - office.py : _sort_xml_attributes, MSOfficeParser.__remove_rsid,     *)
(*                 MSOfficeParser.__remove_revisions, _specific_cleanup    *)
(* Strings whose characters matter (tag names in Clark notation, CSS text) *)
(* are sequences of one-character strings.                                 *)
(***************************************************************************)
EXTENDS Integers, Sequences, FiniteSets, TLC

VARIABLES
    \* ---- web.py, _HTMLParser / AbstractHTMLParser
    tag_blacklist,                    \* self.tag_blacklist
    tag_required_blacklist,           \* self.tag_required_blacklist
    textrepr,                         \* self.__textrepr, as a sequence of pieces
    meta,                             \* self.__meta
    validation_queue,                 \* self.__validation_queue
    in_dangerous_but_required_tag,    \* self.__in_dangerous_but_required_tag
    in_dangerous_tag,                 \* self.__in_dangerous_tag
    pc,                               \* where AbstractHTMLParser.__init__ stands
    input,                            \* the events feed() has delivered so far
    remove_all_result,                \* outcome of remove_all
    get_meta_result,                  \* outcome of get_meta
    output_file,                      \* content of output_filename
    \* ---- office.py
    member,                           \* the archive member's path (full_path)
    file,                             \* the member's XML tree on disk
    original,                         \* the tree as it was before the cleanup
    result,                           \* outcome of the office operation
    runs,                             \* how many times the operation ran
    \* ---- web.py, CSSParser
    css_file,                         \* content of self.filename
    css_output,                       \* content of self.output_filename
    css_result                        \* outcome of CSSParser.remove_all

htmlVars == <<tag_blacklist, tag_required_blacklist, textrepr, meta,
              validation_queue, in_dangerous_but_required_tag,
              in_dangerous_tag, pc, input, remove_all_result,
              get_meta_result, output_file>>
officeVars == <<member, file, original, result, runs>>
cssVars == <<css_file, css_output, css_result>>
vars == <<htmlVars, officeVars, cssVars>>

\* ---------------------------------------------------------------- bounds
MaxEvents == 4
MaxNodes == 5
MaxCleanupNodes == 3
MaxCssLen == 8
MaxRuns == 2

(***************************************************************************)
(*                     web.py : the streaming sanitizer                    *)
(***************************************************************************)

\* The text of a start tag as get_starttag_text() returns it: the name as
\* written (upper: in capitals), what follows the name ("none": the closing
\* bracket, "space": a space and the attributes, "tab": a tab and the
\* attributes) and the attributes as (key, value) pairs.
StartText(name, upper, sep, attrs) ==
    [name |-> name, upper |-> upper, sep |-> sep, attrs |-> attrs]

NoAttrs == <<>>
IdAttrs == << <<"id", "x">> >>
AuthorAttrs == << <<"name", "author">>, <<"content", "Bob">> >>

\* A tag name as a string: its letters, their case, and whether attribute
\* text is still attached to it.
TagString(name, upper, tail) == [name |-> name, upper |-> upper, tail |-> tail]

\* What html.parser hands to the handlers as `tag`: the lower-cased name.
TagOf(name) == TagString(name, FALSE, FALSE)

\* str.lower()
Lower(s) == [s EXCEPT !.upper = FALSE]

\* previous_tag[1:-1].split(' ')[0]: the name as written; attributes that
\* follow a tab are not split away.
NameOfStartText(text) == TagString(text.name, text.upper, text.sep = "tab")

\* html.escape on the character data of the model.
Escape(data) == IF data = "a<b" THEN "a&lt;b" ELSE data

\* str.strip on the character data of the model.
Strip(data) == IF data = " " THEN "" ELSE data

\* dict(attrs).get(key, default): the last pair with that key wins.
AttrGet(attrs, key, default) ==
    LET idx == {i \in 1..Len(attrs) : attrs[i][1] = key}
    IN  IF idx = {} THEN default
        ELSE attrs[CHOOSE i \in idx : \A j \in idx : j <= i][2]

\* Pieces appended to __textrepr.
StartPiece(text) == [kind |-> "start", text |-> text]
EndPiece(prev) == [kind |-> "end", tag |-> prev]
PlaceholderPiece(tag) == [kind |-> "placeholder", tag |-> tag]
StartEndPiece(tag, attrs) == [kind |-> "startend", tag |-> tag, attrs |-> attrs]
DataPiece(data) == [kind |-> "data", data |-> data]

\* Events of the stream.
StartEvent(text) == [type |-> "start", text |-> text]
EndEvent(tag) == [type |-> "end", tag |-> tag]
DataEvent(data) == [type |-> "data", data |-> data]
StartEndEvent(tag, attrs) == [type |-> "startend", tag |-> tag, attrs |-> attrs]

\* ------------------------------------------------------------ the inputs
StartTexts ==
    { StartText("title", FALSE, "none", NoAttrs),      \* <title>
      StartText("title", TRUE, "space", IdAttrs),      \* <TITLE id="x">
      StartText("meta", FALSE, "space", AuthorAttrs),  \* <meta name="author" content="Bob">
      StartText("b", FALSE, "none", NoAttrs),          \* <b>
      StartText("b", FALSE, "tab", IdAttrs) }          \* <b[tab]id="x">
EndTags == {"title", "meta", "b", "i"}
DataTexts == {"Secret", " ", "a<b"}
StartEndTags == {<<"title", NoAttrs>>, <<"meta", AuthorAttrs>>,
                 <<"meta", NoAttrs>>, <<"b", IdAttrs>>}

\* The blacklists of the parser classes.
AbstractHTMLParserConfig ==
    [blacklist |-> {}, required |-> {}]
HTMLParserConfig ==
    [blacklist |-> {"meta"}, required |-> {"title"}]
DTBNCXParserConfig ==
    [blacklist |-> {}, required |-> {"title", "doctitle", "meta"}]
\* A configuration the constructor refuses.
OverlapConfig ==
    [blacklist |-> {"meta"}, required |-> {"title", "meta"}]
Configs == {AbstractHTMLParserConfig, HTMLParserConfig, DTBNCXParserConfig,
            OverlapConfig}

EmptyMeta == [k \in {} |-> ""]
\* The content of a file that was not written.
NoFile == << [kind |-> "no file"] >>
NoCssFile == <<"no file">>

\* AbstractHTMLParser.__init__ up to the call of feed, with
\* _HTMLParser.__init__: an overlap of the two sets raises.
InitHTML ==
    /\ \E c \in Configs :
         /\ tag_blacklist = c.blacklist
         /\ tag_required_blacklist = c.required
         /\ pc = IF c.required \cap c.blacklist # {} THEN "raised" ELSE "feeding"
    /\ textrepr = <<>>
    /\ meta = EmptyMeta
    /\ validation_queue = <<>>
    /\ in_dangerous_but_required_tag = 0
    /\ in_dangerous_tag = 0
    /\ input = <<>>
    /\ remove_all_result = "none"
    /\ get_meta_result = "none"
    /\ output_file = NoFile

Feeding == pc = "feeding" /\ Len(input) < MaxEvents

\* Whether a piece is appended by handle_starttag / handle_endtag.
TagIsEmitted(dangerous, required) == dangerous = 0 /\ required <= 1

\* Whether a piece is appended by handle_data and by handle_startendtag for
\* a tag that is in neither set.
ContentIsEmitted(dangerous, required) == required = 0 /\ dangerous = 0

\* A flag in place of a counter: set by a start tag of the set, otherwise kept.
FlagAfterStart(counter, tag, set) == IF tag \in set THEN 1 ELSE counter

\* handle_starttag's update of a suppression counter: one more for a start
\* tag whose name is in the counter's set.
CounterAfterStart(counter, tag, set) ==
    counter + (IF tag \in set THEN 1 ELSE 0)

\* _HTMLParser.handle_starttag
HandleStartTag(text) ==
    LET tag == text.name
        required == CounterAfterStart(in_dangerous_but_required_tag, tag,
                                      tag_required_blacklist)
        dangerous == CounterAfterStart(in_dangerous_tag, tag, tag_blacklist)
    IN  /\ Feeding
        /\ input' = Append(input, StartEvent(text))
        /\ validation_queue' = Append(validation_queue, text)
        /\ in_dangerous_but_required_tag' = required
        /\ in_dangerous_tag' = dangerous
        /\ textrepr' = IF TagIsEmitted(dangerous, required)
                       THEN Append(textrepr, StartPiece(text))
                       ELSE textrepr
        /\ UNCHANGED <<tag_blacklist, tag_required_blacklist, meta, pc,
                       remove_all_result, get_meta_result, output_file>>

\* A test that accepts any closing tag.
EndTagMatchesAnything(tag, previous_tag) == TRUE

\* The test of handle_endtag: the closing tag names the popped start tag.
EndTagMatches(tag, previous_tag) == TagOf(tag) = Lower(previous_tag)

\* The closing tag appended whatever the counters say.
EndTagOutUnsuppressed(previous_tag) == Append(textrepr, EndPiece(previous_tag))

\* handle_endtag's addition to __textrepr: the synthesized closing tag, unless
\* the counters, not yet decremented, suppress it.
EndTagOut(previous_tag) ==
    IF TagIsEmitted(in_dangerous_tag, in_dangerous_but_required_tag)
    THEN Append(textrepr, EndPiece(previous_tag))
    ELSE textrepr

\* _HTMLParser.handle_endtag
HandleEndTag(tag) ==
    /\ Feeding
    /\ input' = Append(input, EndEvent(tag))
    /\ IF validation_queue = <<>>
       THEN /\ pc' = "raised"
            /\ UNCHANGED <<validation_queue, textrepr,
                           in_dangerous_but_required_tag, in_dangerous_tag>>
       ELSE LET previous_tag ==
                    NameOfStartText(validation_queue[Len(validation_queue)])
            IN  /\ validation_queue' =
                       SubSeq(validation_queue, 1, Len(validation_queue) - 1)
                /\ IF ~EndTagMatches(tag, previous_tag)
                   THEN /\ pc' = "raised"
                        /\ UNCHANGED <<textrepr, in_dangerous_but_required_tag,
                                       in_dangerous_tag>>
                   ELSE /\ pc' = pc
                        /\ textrepr' = EndTagOut(previous_tag)
                        /\ IF tag \in tag_required_blacklist
                           THEN /\ in_dangerous_but_required_tag' =
                                       in_dangerous_but_required_tag - 1
                                /\ UNCHANGED in_dangerous_tag
                           ELSE IF tag \in tag_blacklist
                           THEN /\ in_dangerous_tag' = in_dangerous_tag - 1
                                /\ UNCHANGED in_dangerous_but_required_tag
                           ELSE UNCHANGED <<in_dangerous_but_required_tag,
                                            in_dangerous_tag>>
    /\ UNCHANGED <<tag_blacklist, tag_required_blacklist, meta,
                   remove_all_result, get_meta_result, output_file>>

\* _HTMLParser.handle_data
HandleData(data) ==
    /\ Feeding
    /\ input' = Append(input, DataEvent(data))
    /\ textrepr' = IF /\ ContentIsEmitted(in_dangerous_tag,
                                          in_dangerous_but_required_tag)
                      /\ Strip(data) # ""
                   THEN Append(textrepr, DataPiece(Escape(data)))
                   ELSE textrepr
    /\ UNCHANGED <<tag_blacklist, tag_required_blacklist, meta,
                   validation_queue, in_dangerous_but_required_tag,
                   in_dangerous_tag, pc, remove_all_result, get_meta_result,
                   output_file>>

\* What handle_startendtag appends for a tag of one of the two sets.
PlaceholderOut(tag, out) ==
    IF in_dangerous_tag # 0 THEN out
    ELSE IF tag \in tag_required_blacklist
         THEN Append(out, PlaceholderPiece(tag))
         ELSE out

\* _HTMLParser.handle_startendtag
HandleStartEndTag(tag, attrs) ==
    /\ Feeding
    /\ input' = Append(input, StartEndEvent(tag, attrs))
    /\ IF tag \in (tag_required_blacklist \cup tag_blacklist)
       THEN LET name == AttrGet(attrs, "name", "harmful metadata")
                content == AttrGet(attrs, "content", "harmful data")
            IN  /\ meta' = [k \in DOMAIN meta \cup {name} |->
                               IF k = name THEN content ELSE meta[k]]
                /\ textrepr' = PlaceholderOut(tag, textrepr)
       ELSE /\ meta' = meta
            /\ textrepr' =
                 IF ContentIsEmitted(in_dangerous_tag,
                                     in_dangerous_but_required_tag)
                 THEN Append(textrepr, StartEndPiece(tag, attrs))
                 ELSE textrepr
    /\ UNCHANGED <<tag_blacklist, tag_required_blacklist, validation_queue,
                   in_dangerous_but_required_tag, in_dangerous_tag, pc,
                   remove_all_result, get_meta_result, output_file>>

\* AbstractHTMLParser.__init__: feed() has returned, close() ends the parse.
Close ==
    /\ pc = "feeding"
    /\ pc' = "constructed"
    /\ UNCHANGED <<tag_blacklist, tag_required_blacklist, textrepr, meta,
                   validation_queue, in_dangerous_but_required_tag,
                   in_dangerous_tag, input, remove_all_result,
                   get_meta_result, output_file>>

\* _HTMLParser.remove_all, through AbstractHTMLParser.remove_all
RemoveAll ==
    /\ pc = "constructed"
    /\ remove_all_result = "none"
    /\ IF validation_queue # <<>>
       THEN /\ remove_all_result' = "ValueError"
            /\ UNCHANGED output_file
       ELSE /\ remove_all_result' = "True"
            /\ output_file' = textrepr
    /\ UNCHANGED <<tag_blacklist, tag_required_blacklist, textrepr, meta,
                   validation_queue, in_dangerous_but_required_tag,
                   in_dangerous_tag, pc, input, get_meta_result>>

\* _HTMLParser.get_meta, through AbstractHTMLParser.get_meta
GetMeta ==
    /\ pc = "constructed"
    /\ get_meta_result = "none"
    /\ get_meta_result' = IF validation_queue # <<>> THEN "ValueError"
                          ELSE "returned"
    /\ UNCHANGED <<tag_blacklist, tag_required_blacklist, textrepr, meta,
                   validation_queue, in_dangerous_but_required_tag,
                   in_dangerous_tag, pc, input, remove_all_result,
                   output_file>>

(***************************************************************************)
(*                    Strings as sequences of characters                   *)
(***************************************************************************)

\* The code points of the characters the model's strings are made of.
CodePoint ==
    (" " :> 32) @@ ("*" :> 42) @@ ("/" :> 47) @@ (":" :> 58)
    @@ ("D" :> 68) @@ ("I" :> 73) @@ ("P" :> 80) @@ ("R" :> 82) @@ ("S" :> 83)
    @@ ("T" :> 84)
    @@ ("a" :> 97) @@ ("b" :> 98) @@ ("c" :> 99) @@ ("d" :> 100)
    @@ ("e" :> 101) @@ ("i" :> 105) @@ ("l" :> 108) @@ ("m" :> 109)
    @@ ("n" :> 110) @@ ("o" :> 111) @@ ("p" :> 112) @@ ("r" :> 114)
    @@ ("s" :> 115) @@ ("t" :> 116) @@ ("w" :> 119) @@ ("x" :> 120)
    @@ ("y" :> 121) @@ ("{" :> 123) @@ ("}" :> 125)

\* str.lower(), character by character.
LowerChar(c) ==
    IF CodePoint[c] >= 65 /\ CodePoint[c] <= 90
    THEN CHOOSE d \in DOMAIN CodePoint : CodePoint[d] = CodePoint[c] + 32
    ELSE c
LowerStr(s) == [i \in 1..Len(s) |-> LowerChar(s[i])]

\* str.strip(): leading and trailing blanks removed.
RECURSIVE StripStr(_)
StripStr(s) ==
    IF s = <<>> THEN s
    ELSE IF Head(s) = " " THEN StripStr(Tail(s))
    ELSE IF s[Len(s)] = " " THEN StripStr(SubSeq(s, 1, Len(s) - 1))
    ELSE s

\* `sub in s`
Contains(s, sub) ==
    \E i \in 1..(Len(s) - Len(sub) + 1) : SubSeq(s, i, i + Len(sub) - 1) = sub

\* s < t for Python strings: lexicographic by code point.
RECURSIVE StrLess(_, _)
StrLess(s, t) ==
    IF t = <<>> THEN FALSE
    ELSE IF s = <<>> THEN TRUE
    ELSE IF Head(s) = Head(t) THEN StrLess(Tail(s), Tail(t))
    ELSE CodePoint[Head(s)] < CodePoint[Head(t)]

Range(seq) == {seq[i] : i \in 1..Len(seq)}

(***************************************************************************)
(*                   office.py : element trees and lists                   *)
(***************************************************************************)

\* An XML file is a tree of elements 1..n with root 1:
\*   tag[e]      the tag in Clark notation, "{uri}local" (each namespace URI
\*               is written as one letter) or "local",
\*   attrib[e]   the attributes, a set of (key, value) pairs,
\*   children[e] the list of child elements,
\*   nsmap       the prefix -> URI bindings _parse_xml collects.
Root == 1

Tree(tag, attrib, children, nsmap) ==
    [tag |-> tag, attrib |-> attrib, children |-> children, nsmap |-> nsmap]

\* Element.iter(): the element and its descendants in document order.
RECURSIVE Iter(_, _), IterAll(_, _)
Iter(children, e) == <<e>> \o IterAll(children, children[e])
IterAll(children, list) ==
    IF list = <<>> THEN <<>>
    ELSE Iter(children, Head(list)) \o IterAll(children, Tail(list))

\* tree.iterfind('.//'): every descendant of the root, in document order.
Descendants(children) == Tail(Iter(children, Root))

\* tree.iterfind('.//w:tag', namespace) for a prefix the map binds.
FindAll(t, children, local) ==
    LET wanted == <<"{", t.nsmap["w"], "}">> \o local
    IN  SelectSeq(Descendants(children), LAMBDA e : t.tag[e] = wanted)

\* parent_map = {c: p for p in tree.iter() for c in p}
ParentMap(children) ==
    LET all == Range(Iter(children, Root))
    IN  [c \in UNION {Range(children[p]) : p \in all} |->
            CHOOSE p \in all : c \in Range(children[p])]

\* list.insert(position, x): positions count from 0; one past the end appends.
ListInsert(list, position, x) ==
    IF position >= Len(list) THEN Append(list, x)
    ELSE SubSeq(list, 1, position) \o <<x>> \o SubSeq(list, position + 1, Len(list))

\* Element.remove(x): the first occurrence goes; the caller has checked that
\* there is one (otherwise ValueError).
ListRemove(list, x) ==
    LET i == CHOOSE k \in 1..Len(list) :
                 list[k] = x /\ \A j \in 1..(k - 1) : list[j] # x
    IN  SubSeq(list, 1, i - 1) \o SubSeq(list, i + 1, Len(list))

\* What tree.write leaves on disk: the elements reachable from the root.
Written(t, attrib, children) ==
    LET all == Range(Iter(children, Root))
    IN  [t EXCEPT !.attrib = [e \in DOMAIN attrib |->
                                IF e \in all THEN attrib[e] ELSE {}],
                  !.children = [e \in DOMAIN children |->
                                  IF e \in all THEN children[e] ELSE <<>>]]

\* Tag and attribute names of the model.
wDocument == <<"{", "w", "}", "d", "o", "c">>
wIns == <<"{", "w", "}", "i", "n", "s">>
wDel == <<"{", "w", "}", "d", "e", "l">>
wR == <<"{", "w", "}", "r">>
wRsidR == <<"{", "w", "}", "r", "s", "i", "d", "R">>
wTRsid == <<"{", "w", "}", "t", "R", "s", "i", "d">>
wRSID == <<"{", "w", "}", "R", "S", "I", "D">>
mcIgnorable == <<"{", "m", "}", "I">>
pProperties == <<"{", "p", "}", "P">>
desc == <<"d", "e", "s", "c">>

(***************************************************************************)
(*                 office.py : MSOfficeParser.__remove_revisions           *)
(***************************************************************************)

\* for element in elements: parent_map[element].remove(element)
RECURSIVE RemoveEach(_, _, _)
RemoveEach(children, parent_map, elements) ==
    IF elements = <<>> THEN children
    ELSE LET e == Head(elements)
             p == parent_map[e]
         IN  RemoveEach([children EXCEPT ![p] = ListRemove(children[p], e)],
                        parent_map, Tail(elements))

\* enumerate(tree.iter()): the 0-based index of the element in the document
\* order of the whole tree.
Position(children, element) ==
    LET order == Iter(children, Root)
    IN  (CHOOSE i \in 1..Len(order) : order[i] = element
                                     /\ \A j \in 1..(i - 1) : order[j] # element) - 1

\* The (element, position, children) triples gathered for the insertions.
RECURSIVE InsertionTuples(_, _)
InsertionTuples(children, insertions) ==
    IF insertions = <<>> THEN <<>>
    ELSE LET element == Head(insertions)
             position == Position(children, element)
         IN  [i \in 1..Len(children[element]) |->
                <<element, position, children[element][i]>>]
             \o InsertionTuples(children, Tail(insertions))

\* for (element, position, children) in elements: insert, then remove.
\* Element.remove raises ValueError when the wrapper is no longer in the list.
RECURSIVE Splice(_, _, _)
Splice(children, parent_map, tuples) ==
    IF tuples = <<>> THEN [raised |-> FALSE, children |-> children]
    ELSE LET element == Head(tuples)[1]
             p == parent_map[element]
             inserted == ListInsert(children[p], Head(tuples)[2],
                                    Head(tuples)[3])
         IN  IF element \notin Range(inserted)
             THEN [raised |-> TRUE, children |-> children]
             ELSE Splice([children EXCEPT ![p] = ListRemove(inserted, element)],
                         parent_map, Tail(tuples))

\* MSOfficeParser.__remove_revisions on a well-formed file: the outcome and
\* the file afterwards. A prefix w the file does not bind makes tree.find
\* raise SyntaxError; an exception leaves the file as it was.
RemoveRevisionsOf(t) ==
    IF "w" \notin DOMAIN t.nsmap
    THEN [result |-> "SyntaxError", file |-> t]
    ELSE IF FindAll(t, t.children, <<"d", "e", "l">>) = <<>>
            /\ FindAll(t, t.children, <<"i", "n", "s">>) = <<>>
    THEN [result |-> "True", file |-> t]
    ELSE LET parent_map == ParentMap(t.children)
             deleted == RemoveEach(t.children, parent_map,
                                   FindAll(t, t.children, <<"d", "e", "l">>))
             tuples == InsertionTuples(deleted,
                                       FindAll(t, deleted, <<"i", "n", "s">>))
             spliced == Splice(deleted, parent_map, tuples)
         IN  IF spliced.raised
             THEN [result |-> "ValueError", file |-> t]
             ELSE [result |-> "True",
                   file |-> Written(t, t.attrib, spliced.children)]

(***************************************************************************)
(*                   office.py : MSOfficeParser.__remove_rsid              *)
(***************************************************************************)

\* '}rsid' in name.strip().lower()
IsRsid(name) ==
    Contains(LowerStr(StripStr(name)), <<"}", "r", "s", "i", "d">>)

\* MSOfficeParser.__remove_rsid on a well-formed file.
RemoveRsidOf(t) ==
    IF "w" \notin DOMAIN t.nsmap
    THEN [result |-> "True", file |-> t]
    ELSE LET parent_map == ParentMap(t.children)
             items == Descendants(t.children)
             elements_to_remove == SelectSeq(items, LAMBDA e : IsRsid(t.tag[e]))
             attrib == [e \in DOMAIN t.attrib |->
                          IF e \in Range(items) /\ ~IsRsid(t.tag[e])
                          THEN {a \in t.attrib[e] : ~IsRsid(a[1])}
                          ELSE t.attrib[e]]
             children == RemoveEach(t.children, parent_map, elements_to_remove)
         IN  [result |-> "True", file |-> Written(t, attrib, children)]

(***************************************************************************)
(*                      office.py : _sort_xml_attributes                   *)
(***************************************************************************)

\* child.get('desc'): the value, or None.
GetDesc(t, e) ==
    IF \E a \in t.attrib[e] : a[1] = desc
    THEN [none |-> FALSE, value |-> (CHOOSE a \in t.attrib[e] : a[1] = desc)[2]]
    ELSE [none |-> TRUE, value |-> <<>>]

\* (child.tag, child.get('desc')) < (other.tag, other.get('desc')), where the
\* two are comparable.
KeyLess(t, a, b) ==
    \/ StrLess(t.tag[a], t.tag[b])
    \/ /\ t.tag[a] = t.tag[b]
       /\ ~GetDesc(t, a).none /\ ~GetDesc(t, b).none
       /\ StrLess(GetDesc(t, a).value, GetDesc(t, b).value)

\* Two keys Python cannot order: equal tags, one desc a string and the other
\* None. Any sort of a list must compare two such neighbours, and the
\* comparison raises TypeError.
Unorderable(t, list) ==
    \E i, j \in 1..Len(list) :
        /\ t.tag[list[i]] = t.tag[list[j]]
        /\ GetDesc(t, list[i]).none /\ ~GetDesc(t, list[j]).none

\* sorted(c, key=...): stable, so an element goes behind those not greater.
RECURSIVE Sorted(_, _)
Sorted(t, list) ==
    IF list = <<>> THEN <<>>
    ELSE LET front == Sorted(t, SubSeq(list, 1, Len(list) - 1))
             x == list[Len(list)]
             k == Cardinality({i \in 1..Len(front) : ~KeyLess(t, x, front[i])})
         IN  SubSeq(front, 1, k) \o <<x>> \o SubSeq(front, k + 1, Len(front))

\* The elements whose children the loop `for c in tree.getroot()` sorts.
SortedElements(t) == Range(t.children[Root])

\* _sort_xml_attributes on a well-formed file.
SortXmlAttributesOf(t) ==
    IF \E c \in SortedElements(t) : Unorderable(t, t.children[c])
    THEN [result |-> "TypeError", file |-> t]
    ELSE [result |-> "True",
          file |-> Written(t, t.attrib,
                           [e \in DOMAIN t.children |->
                               IF e \in SortedElements(t)
                               THEN Sorted(t, t.children[e])
                               ELSE t.children[e]])]

\* The office and CSS state while the markup sanitizer runs.
OfficeIdle ==
    /\ member = "none"
    /\ file = <<>>
    /\ original = <<>>
    /\ result = "none"
    /\ runs = 0
CssIdle ==
    /\ css_file = <<>>
    /\ css_output = NoCssFile
    /\ css_result = "none"

InitSanitizer == InitHTML /\ OfficeIdle /\ CssIdle

NextSanitizer ==
    \/ \E text \in StartTexts : HandleStartTag(text) /\ UNCHANGED <<officeVars, cssVars>>
    \/ \E tag \in EndTags : HandleEndTag(tag) /\ UNCHANGED <<officeVars, cssVars>>
    \/ \E data \in DataTexts : HandleData(data) /\ UNCHANGED <<officeVars, cssVars>>
    \/ \E t \in StartEndTags : HandleStartEndTag(t[1], t[2]) /\ UNCHANGED <<officeVars, cssVars>>
    \/ Close /\ UNCHANGED <<officeVars, cssVars>>
    \/ RemoveAll /\ UNCHANGED <<officeVars, cssVars>>
    \/ GetMeta /\ UNCHANGED <<officeVars, cssVars>>

SpecSanitizer == InitSanitizer /\ [][NextSanitizer]_vars

(***************************************************************************)
(*                 office.py : MSOfficeParser._specific_cleanup            *)
(***************************************************************************)

\* The members of the archive the model cleans; all are non-empty and end
\* with ".xml".
Members == {"word/document.xml", "word/styles.xml", "docProps/app.xml"}

\* The document _specific_cleanup writes over docProps/app.xml.
AppProperties(t) ==
    Tree([t.tag EXCEPT ![Root] = pProperties],
         [e \in DOMAIN t.attrib |-> {}],
         [e \in DOMAIN t.children |-> <<>>],
         ("" :> "p"))

\* re.sub(b'mc:Ignorable="[^"]*"', b'', text, 1) on the file tree.write has
\* produced: the first such attribute in document order goes, when the file
\* binds the prefix mc.
StripIgnorable(t) ==
    LET order == Iter(t.children, Root)
        hits == {i \in 1..Len(order) :
                    \E a \in t.attrib[order[i]] : a[1] = mcIgnorable}
    IN  IF hits = {} \/ "mc" \notin DOMAIN t.nsmap THEN t
        ELSE LET e == order[CHOOSE i \in hits : \A j \in hits : i <= j]
             IN  [t EXCEPT !.attrib[e] = {a \in @ : a[1] # mcIgnorable}]

\* MSOfficeParser._specific_cleanup: each step works on the file the step
\* before has written; an exception leaves the file as the last completed
\* step wrote it.
SpecificCleanupOf(path, t) ==
    LET first == IF path = "word/document.xml" THEN RemoveRevisionsOf(t)
                 ELSE IF path = "docProps/app.xml"
                 THEN [result |-> "True", file |-> AppProperties(t)]
                 ELSE [result |-> "True", file |-> t]
    IN  IF first.result # "True" THEN first
        ELSE LET rsid == RemoveRsidOf(first.file)
                 sorted == SortXmlAttributesOf(rsid.file)
             IN  IF sorted.result # "True" THEN sorted
                 ELSE [result |-> "True", file |-> StripIgnorable(sorted.file)]

(***************************************************************************)
(*                        office.py : the input files                      *)
(***************************************************************************)

RECURSIVE SeqOfSet(_)
SeqOfSet(set) ==
    IF set = {} THEN <<>>
    ELSE LET m == CHOOSE x \in set : \A y \in set : x <= y
         IN  <<m>> \o SeqOfSet(set \ {m})

\* Every ordered tree with n elements, numbered in document order.
TreeShapes(n) ==
    { [e \in 1..n |-> SeqOfSet({k \in 2..n : parent[k] = e})] :
        parent \in {f \in [2..n -> 1..n] : \A k \in 2..n : f[k] < k} }

\* The files of a given size whose elements, below the root, take their tags
\* and attributes from the given sets.
Files(n, rootTag, rootAttribs, tags, attribs, nsmaps) ==
    { Tree([e \in 1..n |-> IF e = Root THEN rootTag ELSE tag[e]],
           [e \in 1..n |-> IF e = Root THEN ra ELSE attrib[e]],
           children, nsmap) :
        tag \in [1..n -> tags], attrib \in [1..n -> attribs],
        ra \in rootAttribs, children \in TreeShapes(n), nsmap \in nsmaps }

HtmlIdle ==
    /\ tag_blacklist = {}
    /\ tag_required_blacklist = {}
    /\ textrepr = <<>>
    /\ meta = EmptyMeta
    /\ validation_queue = <<>>
    /\ in_dangerous_but_required_tag = 0
    /\ in_dangerous_tag = 0
    /\ pc = "none"
    /\ input = <<>>
    /\ remove_all_result = "none"
    /\ get_meta_result = "none"
    /\ output_file = NoFile

InitOffice(path, files) ==
    /\ member = path
    /\ file \in files
    /\ original = file
    /\ result = "none"
    /\ runs = 0
    /\ HtmlIdle
    /\ CssIdle

\* ---- word/document.xml with tracked insertions and deletions
InitRevisions ==
    \E n \in 1..MaxNodes :
        InitOffice("word/document.xml",
                   Files(n, wDocument, {{}}, {wIns, wDel, wR}, {{}},
                         {("w" :> "w")}))

\* MSOfficeParser.__remove_revisions
RemoveRevisions ==
    /\ runs < MaxRuns
    /\ LET r == RemoveRevisionsOf(file)
       IN  file' = r.file /\ result' = r.result
    /\ runs' = runs + 1
    /\ UNCHANGED <<member, original, htmlVars, cssVars>>

NextRevisions == RemoveRevisions

SpecRevisions == InitRevisions /\ [][NextRevisions]_vars

\* ---- members with revision session ids
RsidAttribs ==
    { {}, {<<wRsidR, <<"x">> >>}, {<<wTRsid, <<"x">> >>},
      {<<wRSID, <<"x">> >>, <<wR, <<"y">> >>} }

InitCleanup ==
    \E n \in 1..MaxCleanupNodes, path \in Members :
        InitOffice(path,
                   Files(n, wDocument,
                         {{}, {<<wRsidR, <<"x">> >>}, {<<mcIgnorable, <<"w">> >>}},
                         {wR, wIns, wRsidR, wTRsid, <<"r", "s", "i", "d">>},
                         RsidAttribs,
                         {("w" :> "w") @@ ("mc" :> "m"), ("x" :> "w")}))

\* MSOfficeParser._specific_cleanup
SpecificCleanup ==
    /\ runs < MaxRuns
    /\ LET r == SpecificCleanupOf(member, file)
       IN  file' = r.file /\ result' = r.result
    /\ runs' = runs + 1
    /\ UNCHANGED <<member, original, htmlVars, cssVars>>

NextCleanup == SpecificCleanup

SpecCleanup == InitCleanup /\ [][NextCleanup]_vars

\* ---- files whose children are out of order
SortAttribs == { {}, {<<desc, <<"x">> >>}, {<<desc, <<"y">> >>} }

InitSort ==
    \E n \in 1..MaxNodes :
        InitOffice("word/styles.xml",
                   Files(n, <<"r">>, {{}}, {<<"a">>, <<"b">>}, SortAttribs,
                         {("w" :> "w")}))

\* _sort_xml_attributes
SortXmlAttributes ==
    /\ runs < MaxRuns
    /\ LET r == SortXmlAttributesOf(file)
       IN  file' = r.file /\ result' = r.result
    /\ runs' = runs + 1
    /\ UNCHANGED <<member, original, htmlVars, cssVars>>

NextSort == SortXmlAttributes

SpecSort == InitSort /\ [][NextSort]_vars

(***************************************************************************)
(*                          web.py : CSSParser                             *)
(***************************************************************************)

CssChars == {"/", "*", "a"}

\* Where the first "*/" at or after position i starts (0: nowhere).
FirstClose(text, i) ==
    LET ends == {j \in i..(Len(text) - 1) : text[j] = "*" /\ text[j + 1] = "/"}
    IN  IF ends = {} THEN 0 ELSE CHOOSE j \in ends : \A k \in ends : j <= k

\* re.sub(r'/\*.*?\*/', '', text, 0, re.MULTILINE | re.DOTALL): scanning from
\* the left, each "/*" is removed up to the nearest "*/" after it, and the
\* scan goes on behind the removed span.
RECURSIVE CssSub(_)
CssSub(text) ==
    IF text = <<>> THEN <<>>
    ELSE IF /\ Len(text) >= 4
            /\ text[1] = "/" /\ text[2] = "*"
            /\ FirstClose(text, 3) # 0
    THEN CssSub(SubSeq(text, FirstClose(text, 3) + 2, Len(text)))
    ELSE <<Head(text)>> \o CssSub(Tail(text))

RECURSIVE Texts(_)
Texts(n) ==
    IF n = 0 THEN {<<>>}
    ELSE LET shorter == Texts(n - 1)
         IN  shorter \cup {Append(t, c) : t \in shorter, c \in CssChars}

InitCss ==
    /\ css_file \in Texts(MaxCssLen)
    /\ css_output = NoCssFile
    /\ css_result = "none"
    /\ HtmlIdle
    /\ OfficeIdle

\* CSSParser.remove_all
CssRemoveAll ==
    /\ css_result = "none"
    /\ css_output' = CssSub(css_file)
    /\ css_result' = "True"
    /\ UNCHANGED <<css_file, htmlVars, officeVars>>

NextCss == CssRemoveAll

SpecCss == InitCss /\ [][NextCss]_vars

(***************************************************************************)
(*                  Properties of the streaming sanitizer                  *)
(***************************************************************************)

\* The open start tags (by lower-cased name) after a sequence of events, by
\* the nesting rule of markup itself: an end tag closes the innermost open
\* tag of the same name. A name "!" marks a stream that broke the rule.
RECURSIVE OpenNames(_, _)
OpenNames(events, stack) ==
    IF events = <<>> THEN stack
    ELSE LET e == Head(events)
         IN  IF e.type = "start"
             THEN OpenNames(Tail(events), Append(stack, e.text.name))
             ELSE IF e.type = "end"
             THEN IF stack # <<>> /\ stack[Len(stack)] = e.tag
                  THEN OpenNames(Tail(events), SubSeq(stack, 1, Len(stack) - 1))
                  ELSE <<"!">>
             ELSE OpenNames(Tail(events), stack)

InputWellNested(events) == OpenNames(events, <<>>) = <<>>

\* The same rule on the pieces of the output: a closing piece must carry the
\* name, as written, of the innermost open start piece.
RECURSIVE OpenPieces(_, _)
OpenPieces(pieces, stack) ==
    IF pieces = <<>> THEN stack
    ELSE LET p == Head(pieces)
         IN  IF p.kind = "start"
             THEN OpenPieces(Tail(pieces),
                             Append(stack, TagString(p.text.name, p.text.upper, FALSE)))
             ELSE IF p.kind = "end"
             THEN IF stack # <<>> /\ stack[Len(stack)] = p.tag
                  THEN OpenPieces(Tail(pieces), SubSeq(stack, 1, Len(stack) - 1))
                  ELSE << TagString("!", FALSE, FALSE) >>
             ELSE IF p.kind = "data" /\ p.data = "a<b"
             THEN << TagString("!", FALSE, FALSE) >>
             ELSE OpenPieces(Tail(pieces), stack)

OutputWellNested(pieces) == OpenPieces(pieces, <<>>) = <<>>

\* C1: whenever remove_all has written the output of a validly nested event
\* stream, the written text is validly nested: every start tag in it is
\* closed by a matching end tag in the right order, and no end tag stands
\* without its start tag.
C1_OutputWellNested ==
    (output_file # NoFile /\ InputWellNested(input))
        => OutputWellNested(output_file)

\* A written output that holds a tag pair while part of the input was dropped.
C1_Witness ==
    /\ output_file # NoFile
    /\ InputWellNested(input)
    /\ Len(output_file) >= 2
    /\ Len(output_file) < Len(input)
    /\ \E k \in 1..Len(output_file) : output_file[k].kind = "end"

\* The first end tag of the stream that does not close the innermost open
\* start tag (0: there is none).
FirstUnmatchedEnd(events) ==
    LET bad == {i \in 1..Len(events) :
                  /\ events[i].type = "end"
                  /\ LET open == OpenNames(SubSeq(events, 1, i - 1), <<>>)
                     IN  open = <<>> \/ open[Len(open)] # events[i].tag}
    IN  IF bad = {} THEN 0 ELSE CHOOSE i \in bad : \A j \in bad : i <= j

\* C2: an end tag that does not match the most recently opened, still open
\* start tag (or that arrives when nothing is open) stops the parse with an
\* error at that very event; the parser is never constructed, remove_all and
\* get_meta never return, and no output file is written.
C2_UnmatchedEndFails ==
    FirstUnmatchedEnd(input) # 0 =>
        /\ FirstUnmatchedEnd(input) = Len(input)
        /\ pc = "raised"
        /\ remove_all_result = "none"
        /\ get_meta_result = "none"
        /\ output_file = NoFile

\* <b>Secret</i> has been fed.
C2_Witness ==
    /\ input = << StartEvent(StartText("b", FALSE, "none", NoAttrs)),
                  DataEvent("Secret"), EndEvent("i") >>
    /\ pc = "raised"

\* A piece that shows a tag of the given name.
TagPieceOf(p, name) ==
    \/ p.kind = "start" /\ p.text.name = name
    \/ p.kind = "placeholder" /\ p.tag = name

\* C3: in the cleaned output every required-blacklisted element is an empty
\* placeholder: its start tag is immediately followed by its end tag, so that
\* nothing that stood between them in the input (text, nested tags with their
\* attributes, self-closing tags) is in the output.
C3_RequiredElementIsEmpty ==
    output_file # NoFile =>
        \A k \in 1..Len(output_file) :
            (/\ output_file[k].kind = "start"
             /\ output_file[k].text.name \in tag_required_blacklist)
            => /\ k < Len(output_file)
               /\ output_file[k + 1].kind = "end"
               /\ output_file[k + 1].tag.name = output_file[k].text.name

\* The start tag <meta name="author" content="Bob">.
MetaAuthorStart == StartText("meta", FALSE, "space", AuthorAttrs)

\* C4: with the HTMLParser blacklists, an input whose only tag is the start
\* tag <meta name="author" content="Bob"> (no "/>", no </meta>) is accepted:
\* get_meta returns a map with author -> Bob and remove_all writes an output
\* with no trace of the tag.
C4_MetaStartTagHarvested ==
    (/\ tag_blacklist = HTMLParserConfig.blacklist
     /\ input = << StartEvent(MetaAuthorStart) >>
     /\ get_meta_result # "none"
     /\ remove_all_result # "none")
    => /\ get_meta_result = "returned"
       /\ "author" \in DOMAIN meta
       /\ meta["author"] = "Bob"
       /\ remove_all_result = "True"
       /\ output_file = <<>>

\* C5: in the cleaned output a required-blacklisted element holds no further
\* tag of its own kind: a nested occurrence, as a start/end pair or as a
\* self-closing tag, is suppressed and only the outer placeholder is left.
C5_NestedSameKindSuppressed ==
    output_file # NoFile =>
        \A k \in 1..Len(output_file) :
            (/\ output_file[k].kind \in {"start", "placeholder"}
             /\ \E n \in tag_required_blacklist : TagPieceOf(output_file[k], n))
            => LET open == OpenPieces(SubSeq(output_file, 1, k - 1), <<>>)
               IN  \A i \in 1..Len(open) :
                       ~TagPieceOf(output_file[k], open[i].name)

(***************************************************************************)
(*                    Properties of the office sanitizer                   *)
(***************************************************************************)

\* The elements of a file.
Elements(t) == Range(Iter(t.children, Root))

\* The elements below a w:del of the file.
InsideDel(t) ==
    UNION { Range(IterAll(t.children, t.children[d])) :
              d \in {e \in Elements(t) : t.tag[e] = wDel} }

\* The w:ins wrappers of the file that stand outside every w:del.
Wrappers(t) == {e \in Elements(t) \ InsideDel(t) : t.tag[e] = wIns}

\* The plain elements a wrapper of the file wraps directly.
Wrapped(t) ==
    { c \in Elements(t) :
        t.tag[c] = wR /\ \E w \in Wrappers(t) : c \in Range(t.children[w]) }

\* C6: __remove_revisions returns without raising on every well-formed
\* document; afterwards the file holds no w:ins and no w:del element, holds
\* every element that a w:ins outside any w:del wrapped directly, and holds
\* nothing that was inside a w:del.
C6_RevisionsAccepted ==
    runs = 1 =>
        /\ result = "True"
        /\ \A e \in Elements(file) : file.tag[e] \notin {wIns, wDel}
        /\ Wrapped(original) \subseteq Elements(file)
        /\ InsideDel(original) \cap Elements(file) = {}

IndexIn(list, x) == CHOOSE i \in 1..Len(list) : list[i] = x

\* C7: unwrapping a w:ins puts its children into the parent's list where the
\* wrapper stood: a plain sibling that stood before (after) the wrapper
\* stands before (after) each spliced child.
C7_SpliceKeepsOrder ==
    (runs = 1 /\ result = "True") =>
        \A w \in Wrappers(original) :
            LET p == ParentMap(original.children)[w]
                before == original.children[p]
                after == file.children[p]
            IN  (original.tag[p] \notin {wIns, wDel} /\ p \in Elements(file)) =>
                \A c \in Range(original.children[w]) :
                    original.tag[c] = wR =>
                        /\ c \in Range(after)
                        /\ \A s \in Range(before) :
                               (original.tag[s] = wR /\ s \in Range(after)) =>
                                   (IndexIn(before, s) < IndexIn(before, w)
                                      <=> IndexIn(after, s) < IndexIn(after, c))

\* The local part of a name in Clark notation.
LocalName(name) ==
    LET braces == {i \in 1..Len(name) : name[i] = "}"}
    IN  IF braces = {} THEN name
        ELSE SubSeq(name, (CHOOSE i \in braces : \A j \in braces : j <= i) + 1,
                    Len(name))

\* The local name contains "rsid", in any letter case, anywhere.
HasRsid(name) == Contains(LowerStr(LocalName(name)), <<"r", "s", "i", "d">>)

\* C8: after _specific_cleanup has succeeded on a non-empty .xml member, no
\* element of the file, the root included, has a local name containing
\* "rsid" in any letter case, and none carries such an attribute.
C8_NoRsidLeft ==
    (runs >= 1 /\ result = "True") =>
        \A e \in Elements(file) :
            /\ ~HasRsid(file.tag[e])
            /\ \A a \in file.attrib[e] : ~HasRsid(a[1])

\* The key (tag, desc if present) of a is not greater than that of b.
KeyNotGreater(t, a, b) ==
    /\ ~StrLess(t.tag[b], t.tag[a])
    /\ (t.tag[a] = t.tag[b] /\ ~GetDesc(t, a).none /\ ~GetDesc(t, b).none)
         => ~StrLess(GetDesc(t, b).value, GetDesc(t, a).value)

\* C9: after _sort_xml_attributes has run, the children of every element,
\* the root and the elements at every depth, are in non-decreasing order of
\* (tag, desc), and a second run leaves the file unchanged.
C9_ChildrenSorted ==
    runs >= 1 =>
        /\ \A e \in Elements(file) :
               \A i, j \in 1..Len(file.children[e]) :
                   i < j => KeyNotGreater(file, file.children[e][i],
                                          file.children[e][j])
        /\ SortXmlAttributesOf(file).file = file

(***************************************************************************)
(*                     Properties of the CSS sanitizer                     *)
(***************************************************************************)

\* The text holds a span "/*" ... "*/".
HasComment(text) ==
    \E i, j \in 1..Len(text) :
        /\ i + 2 <= j /\ j + 1 <= Len(text)
        /\ text[i] = "/" /\ text[i + 1] = "*"
        /\ text[j] = "*" /\ text[j + 1] = "/"

\* C10: the output of CSSParser.remove_all holds no comment span, and
\* remove_all applied to that output returns it unchanged.
C10_NoCommentLeft ==
    css_result = "True" =>
        /\ ~HasComment(css_output)
        /\ CssSub(css_output) = css_output

(***************************************************************************)
(*                  The suppression counters of the sanitizer              *)
(***************************************************************************)

\* The number of start tags on the validation queue whose tag name, as
\* handle_starttag received it, is in the given set.
OnQueue(set) ==
    Cardinality({i \in 1..Len(validation_queue) : validation_queue[i].name \in set})

\* C11: after any sequence of events that has not raised, both suppression
\* counters are non-negative, the required-blacklist counter is the number of
\* tags on the validation queue whose name is in the required blacklist, the
\* plain-blacklist counter is the number whose name is in the plain
\* blacklist, and both are zero whenever the validation queue is empty.
C11_CountersMatchQueue ==
    pc # "raised" =>
        /\ in_dangerous_but_required_tag >= 0
        /\ in_dangerous_tag >= 0
        /\ in_dangerous_but_required_tag = OnQueue(tag_required_blacklist)
        /\ in_dangerous_tag = OnQueue(tag_blacklist)
        /\ validation_queue = <<>> =>
               in_dangerous_but_required_tag = 0 /\ in_dangerous_tag = 0

\* Two nested required-blacklisted start tags, a plain-blacklisted one inside
\* them, and an end tag that has closed it: one counter has gone up to two,
\* the other up to one and back to zero, without an error.
C11_Witness ==
    /\ pc = "feeding"
    /\ Len(input) = 4
    /\ input[4].type = "end"
    /\ Len(validation_queue) = 2
    /\ in_dangerous_but_required_tag = 2
    /\ in_dangerous_tag = 0
    /\ tag_blacklist # {}

====
